---- MODULE Spec2Model ----
(***************************************************************************)
(* Model of the Delhi Business Intelligence dashboard.                      *)
(*                                                                          *)
(* Two variants of the App component exist in the repository:               *)
(*   "unified" : frontend/src/App.jsx (three tabs, runUnifiedAnalysis)      *)
(*   "twoTab"  : the App appended to frontend/tailwind.config.js            *)
(*               (two tabs, runAnalysis)                                    *)
(* Both use frontend/src/services/api.js.                                   *)
(*                                                                          *)
(* JavaScript values are encoded as tagged records: [t |-> "null"],         *)
(* [t |-> "undefined"], [t |-> "string", v |-> s], [t |-> "array", v |-> q],*)
(* [t |-> "object", v |-> f] with f a function from field names to tagged  *)
(* values.  The elements of competitor lists are flat objects: functions    *)
(* from field names to strings.                                             *)
(*                                                                          *)
(* One action is one JavaScript task: an event handler or the delivery of a *)
(* response, together with every continuation (microtask) it triggers.      *)
(***************************************************************************)
EXTENDS Integers, Sequences, FiniteSets, TLC

VARIABLES
  variant,          \* which App component is running
  inputs,           \* useState inputs: query, type, budget, apiKey
  suggestions,      \* useState suggestions
  pendingSearches,  \* geocoding requests in flight, in call order
  selectedLocation, \* useState selectedLocation
  loading,          \* useState loading
  activeTab,        \* useState activeTab
  scoutData,        \* useState scoutData
  predictData,      \* useState predictData
  mapPins,          \* useState mapPins
  geoData,          \* useState geoData
  latestSearch,     \* the most recent geocoding request and what it returned
  mapsData,         \* useState mapsData (App.jsx only)
  mapsLoading,      \* useState mapsLoading (App.jsx only)
  snap,             \* what the run's closure reads of selectedLocation and inputs
  pcBiz,            \* position of runBusinessAnalysis / runAnalysis
  comp,             \* state of the fetchCompetitors promise
  pred,             \* state of the /predict promise
  osmCompetitors,   \* value of the fetchCompetitors promise
  flaskResponse,    \* value of the /predict promise
  geminiParams,     \* parameters of the analyzeWithGemini call
  geminiAnalysis,   \* value returned by analyzeWithGemini
  finalPins,        \* local finalPins of the merge step
  bizResult,        \* value runBusinessAnalysis resolved to
  pcMaps,           \* position of runMapsAnalysis
  mapsResult,       \* value runMapsAnalysis resolved to
  alert,            \* text of the alert shown since the user's last action
  failedAlerts,     \* 'Analysis failed' alerts shown since the run started
  reqs,             \* requests issued to each endpoint since the run started
  outcome           \* how each endpoint's request of the run settled

vars == <<variant, inputs, suggestions, pendingSearches, selectedLocation,
          loading, activeTab, scoutData, predictData, mapPins, geoData,
          latestSearch, mapsData,
          mapsLoading, snap, pcBiz, comp, pred, osmCompetitors, flaskResponse,
          geminiParams, geminiAnalysis, finalPins, bizResult, pcMaps,
          mapsResult, alert, failedAlerts, reqs, outcome>>

----------------------------------------------------------------------------
(* Bounds *)

MaxPending == 2

(* Program constants *)

SliceLimit == 10
MinQueryLen == 2

----------------------------------------------------------------------------
(* JavaScript values *)

JNull == [t |-> "null"]
JUndef == [t |-> "undefined"]
JStr(s) == [t |-> "string", v |-> s]
JArr(q) == [t |-> "array", v |-> q]
JObj(f) == [t |-> "object", v |-> f]

EmptyObj == <<>>

JNum(n) == [t |-> "number", v |-> n]
JBool(b) == [t |-> "boolean", v |-> b]

Truthy(x) ==
  /\ x.t \notin {"null", "undefined"}
  /\ x # JStr("")
  /\ x # JBool(FALSE)
  /\ x # JNum(0)

\* obj?.field
Get(obj, field) ==
  IF obj.t = "object" /\ field \in DOMAIN obj.v THEN obj.v[field] ELSE JUndef

\* a || b with the fallback forgotten
OrKeepFirst(a, b) == a

\* a || b
Or(a, b) == IF Truthy(a) THEN a ELSE b

\* { ...a, ...b } on field functions
Spread(a, b) ==
  [f \in DOMAIN a \cup DOMAIN b |-> IF f \in DOMAIN b THEN b[f] ELSE a[f]]

\* the own fields spread out of a value: none for null and undefined
Fields(x) == IF x.t = "object" THEN x.v ELSE EmptyObj

Take(q, n) == IF Len(q) <= n THEN q ELSE SubSeq(q, 1, n)

----------------------------------------------------------------------------
(* services/api.js *)

Endpoints == {"overpass", "predict", "gemini", "maps"}

\* one raw Overpass element to one competitor
CompetitorOf(p) ==
  [name |-> IF "name" \in DOMAIN p THEN p.name ELSE "Unknown",
   lat  |-> IF "lat" \in DOMAIN p THEN p.lat
            ELSE IF "center_lat" \in DOMAIN p THEN p.center_lat ELSE "undefined",
   lon  |-> IF "lon" \in DOMAIN p THEN p.lon
            ELSE IF "center_lon" \in DOMAIN p THEN p.center_lon ELSE "undefined"]

\* fetchCompetitors: every failure becomes the empty list
FetchCompetitors(out) ==
  IF out.kind # "elements" THEN <<>>
  ELSE Take(SelectSeq([i \in 1..Len(out.elements) |-> CompetitorOf(out.elements[i])],
                      LAMBDA c : c.name # "Unknown"),
            SliceLimit)

\* positional binding of a call's arguments to
\* analyzeWithGemini(apiKey, type, lat, lng, locationName, competitors)
GeminiParamNames == <<"apiKey", "type", "lat", "lng", "locationName", "competitors">>

BindGeminiParams(args) ==
  [p \in {GeminiParamNames[i] : i \in 1..Len(GeminiParamNames)} |->
     LET i == CHOOSE k \in 1..Len(GeminiParamNames) : GeminiParamNames[k] = p
     IN  IF i <= Len(args) THEN args[i] ELSE JUndef]

\* competitors.map(...) at the top of analyzeWithGemini throws unless
\* competitors is an array
GeminiPromptThrows(params) == params.competitors.t # "array"

\* a request that goes out twice
IssueTwice(r, e) == [r EXCEPT ![e] = @ + 2]

\* one request to endpoint e goes out
Issue(r, e) == [r EXCEPT ![e] = @ + 1]

NoRequests == [e \in Endpoints |-> 0]

----------------------------------------------------------------------------
(* The merge step of runBusinessAnalysis / runAnalysis *)

NotFound == [t |-> "undefined"]

RECURSIVE FindFrom(_, _, _)
FindFrom(q, name, i) ==
  IF i > Len(q) THEN NotFound
  ELSE IF "name" \in DOMAIN q[i] /\ q[i].name = name THEN q[i]
  ELSE FindFrom(q, name, i + 1)

\* a find that keeps the last matching entry instead of the first
FindLast(q, name) ==
  LET M == {j \in 1..Len(q) : "name" \in DOMAIN q[j] /\ q[j].name = name}
  IN  IF M = {} THEN NotFound ELSE q[CHOOSE j \in M : \A k \in M : k <= j]

\* Array.prototype.find(ai => ai.name === name)
Find(q, name) == FindFrom(q, name, 1)

\* geminiAnalysis.competitors_enriched?.find throws on a null result and on a
\* competitors_enriched that is neither nullish nor an array
EnrichedThrows(G) ==
  \/ G.t \in {"null", "undefined"}
  \/ Get(G, "competitors_enriched").t \notin {"null", "undefined", "array"}

MergeThrows(osm, G) == Len(osm) > 0 /\ EnrichedThrows(G)

AiInfo(G, real) ==
  LET e == Get(G, "competitors_enriched")
      found == IF e.t = "array" THEN Find(e.v, real.name) ELSE NotFound
  IN  IF found = NotFound THEN EmptyObj ELSE found

Merge(osm, G) ==
  IF Len(osm) > 0
  THEN [i \in 1..Len(osm) |-> Spread(osm[i], AiInfo(G, osm[i]))]
  ELSE <<>>

\* searchLocationName: every failure becomes the empty list
ParseFloat(s) ==
  CASE s = "28.63" -> 2863
    [] s = "77.21" -> 7721
    [] OTHER -> 0

SearchLocationName(out) ==
  IF out.kind # "data" THEN <<>>
  ELSE [i \in 1..Len(out.data) |->
          [name     |-> out.data[i].display_name[1],
           fullName |-> out.data[i].display_name,
           lat      |-> ParseFloat(out.data[i].lat),
           lon      |-> ParseFloat(out.data[i].lon)]]

----------------------------------------------------------------------------
(* What the external services may answer *)

RawPlace1 == [display_name |-> <<"CP", "Delhi">>, lat |-> "28.63", lon |-> "77.21"]

GeoOutcomes ==
  { [kind |-> "error"],
    [kind |-> "data", data |-> <<RawPlace1>>] }

Queries == {"CP", "CP Delhi"}

\* how the two geojson fetches of the mount effect end
GeoDataOutcomes == {"rejected", "notOk", "ok"}

InitGeoData == [city |-> JNull, area |-> JNull]

LoadedGeoData == [city |-> JStr("delhi_city"), area |-> JStr("delhi_area")]

\* no handleSearch call has issued a request yet
NoSearch == [t |-> "none"]

SearchPending == [t |-> "pending"]

SearchResults(r) == [t |-> "results", v |-> r]

Elements1 ==
  << [name |-> "a", lat |-> "1", lon |-> "1"],
     [lat |-> "2", lon |-> "2"],
     [name |-> "b", center_lat |-> "3", center_lon |-> "3"] >>

OverpassOutcomes ==
  { [kind |-> "error"], [kind |-> "notOk"], [kind |-> "noElements"],
    [kind |-> "elements", elements |-> Elements1] }

Analysis1 == JObj([risk_label |-> JStr("Low")])

PredictOutcomes ==
  { [kind |-> "networkError"], [kind |-> "badBody"],
    [kind |-> "json", body |-> JObj([analysis |-> Analysis1])],
    [kind |-> "json", body |-> JObj([analysis |-> JNull])],
    [kind |-> "json", body |-> JObj([error |-> JStr("bad request")])] }

Enriched1 ==
  << [name |-> "a", rating |-> "4.1"],
     [name |-> "a", rating |-> "4.5", address |-> "x"],
     [name |-> "z", rating |-> "3.9"],
     [rating |-> "3.5"] >>

GeminiResults ==
  { JObj([summary |-> JStr("s")]),
    JObj([summary |-> JStr("s"), competitors_enriched |-> JArr(Enriched1)]),
    JObj([summary |-> JStr("s"), competitors_enriched |-> JStr("n/a")]) }

GeminiOutcomes ==
  { [kind |-> "reject"], [kind |-> "invalidJson"] }
  \cup { [kind |-> "json", value |-> G] : G \in GeminiResults }

MapsBodies ==
  { JObj([areaScore |-> JStr("8")]),
    JObj([error |-> JStr("quota")]) }

MapsOutcomes ==
  { [kind |-> "networkError"], [kind |-> "notOk"], [kind |-> "badBody"] }
  \cup { [kind |-> "ok", body |-> b] : b \in MapsBodies }

ApiKeys == {"", "key"}

----------------------------------------------------------------------------
(* Rendering *)

Tabs == IF variant = "unified" THEN {"business", "maps", "predict"}
        ELSE {"business", "predict"}

\* the panel condition of the two-tab component used in both
ShowPanelTwoTab == Truthy(scoutData) \/ Truthy(predictData)

\* the condition that guards the results panel
ShowPanel ==
  IF variant = "unified" THEN Truthy(scoutData) \/ Truthy(mapsData)
  ELSE Truthy(scoutData) \/ Truthy(predictData)

\* the four-way conditional of the maps tab
MapsView ==
  IF mapsLoading THEN "mapsLoading"
  ELSE IF Truthy(Get(mapsData, "error")) THEN "mapsError"
  ELSE IF Truthy(mapsData) THEN "mapsContent"
  ELSE "mapsPlaceholder"

\* the sidebar elements the render function returns
Rendered ==
  IF ShowPanel
  THEN {"panel"}
       \cup (IF activeTab = "business" /\ Truthy(scoutData) THEN {"business"} ELSE {})
       \cup (IF variant = "unified" /\ activeTab = "maps" THEN {MapsView} ELSE {})
       \cup (IF activeTab = "predict" /\ Truthy(predictData) THEN {"predict"} ELSE {})
  ELSE {}

----------------------------------------------------------------------------
(* Initial state: the useState initial values *)

NoAlert == "none"
GuardAlert == IF variant = "unified" THEN "Location and API Key required!"
              ELSE "Please Select a Location"
FailedAlert == IF variant = "unified" THEN "Analysis failed. Please check your inputs."
               ELSE "Analysis failed. Please check your configuration."

InitInputs(v) ==
  IF v = "unified"
  THEN [query |-> "", type |-> "Restaurant", budget |-> "2000000", apiKey |-> ""]
  ELSE [query |-> "", type |-> "Restaurant", budget |-> "2000000"]

Init ==
  /\ variant \in {"unified", "twoTab"}
  /\ inputs = InitInputs(variant)
  /\ suggestions = <<>>
  /\ pendingSearches = <<>>
  /\ selectedLocation = JNull
  /\ loading = FALSE
  /\ activeTab = "business"
  /\ scoutData = JNull
  /\ predictData = JNull
  /\ mapPins = <<>>
  /\ geoData = InitGeoData
  /\ latestSearch = NoSearch
  /\ mapsData = JNull
  /\ mapsLoading = FALSE
  /\ snap = JUndef
  /\ pcBiz = "idle"
  /\ comp = "idle"
  /\ pred = "idle"
  /\ osmCompetitors = <<>>
  /\ flaskResponse = JUndef
  /\ geminiParams = JUndef
  /\ geminiAnalysis = JUndef
  /\ finalPins = <<>>
  /\ bizResult = JUndef
  /\ pcMaps = "idle"
  /\ mapsResult = JUndef
  /\ alert = NoAlert
  /\ failedAlerts = 0
  /\ reqs = NoRequests
  /\ outcome = [e \in Endpoints |-> "none"]

----------------------------------------------------------------------------
(* Form handlers *)

runVars == <<snap, pcBiz, comp, pred, osmCompetitors, flaskResponse,
             geminiParams, geminiAnalysis, finalPins, bizResult, pcMaps,
             mapsResult, failedAlerts, reqs, outcome>>

dataVars == <<loading, scoutData, predictData, mapPins, mapsData, mapsLoading>>

\* the continuation of fetchGeoData after the two fetches of the mount effect;
\* a load that failed stores nothing, so it leaves the state as it is
FetchGeoDataSettle(out) ==
  /\ geoData = InitGeoData
  /\ geoData' = IF out = "ok" THEN LoadedGeoData ELSE geoData
  /\ UNCHANGED <<variant, inputs, suggestions, pendingSearches,
                 selectedLocation, activeTab, alert, latestSearch>>
  /\ UNCHANGED dataVars
  /\ UNCHANGED runVars

RemoveAt(q, i) == SubSeq(q, 1, i - 1) \o SubSeq(q, i + 1, Len(q))

\* a handleSearch that clears the suggestions of a short text
HandleSearchClears(q) ==
  /\ inputs' = [inputs EXCEPT !.query = q]
  /\ IF Len(q) > MinQueryLen
     THEN /\ Len(pendingSearches) < MaxPending
          /\ pendingSearches' = Append(pendingSearches, q)
          /\ latestSearch' = SearchPending
          /\ UNCHANGED suggestions
     ELSE /\ suggestions' = <<>>
          /\ UNCHANGED <<pendingSearches, latestSearch>>
  /\ UNCHANGED geoData
  /\ alert' = NoAlert
  /\ UNCHANGED <<variant, selectedLocation, activeTab>>
  /\ UNCHANGED dataVars
  /\ UNCHANGED runVars

\* handleSearch up to its await
HandleSearch(q) ==
  /\ inputs' = [inputs EXCEPT !.query = q]
  /\ IF Len(q) > MinQueryLen
     THEN /\ Len(pendingSearches) < MaxPending
          /\ pendingSearches' = Append(pendingSearches, q)
          /\ latestSearch' = SearchPending
     ELSE UNCHANGED <<pendingSearches, latestSearch>>
  /\ UNCHANGED geoData
  /\ alert' = NoAlert
  /\ UNCHANGED <<variant, suggestions, selectedLocation, activeTab>>
  /\ UNCHANGED dataVars
  /\ UNCHANGED runVars

\* the continuation of handleSearch after await API.searchLocationName(q)
SearchSettle(i, out) ==
  /\ i \in 1..Len(pendingSearches)
  /\ suggestions' = SearchLocationName(out)
  /\ pendingSearches' = RemoveAt(pendingSearches, i)
  /\ latestSearch' = IF i = Len(pendingSearches) /\ latestSearch = SearchPending
                     THEN SearchResults(SearchLocationName(out))
                     ELSE latestSearch
  /\ UNCHANGED geoData
  /\ UNCHANGED <<variant, inputs, selectedLocation, activeTab, alert>>
  /\ UNCHANGED dataVars
  /\ UNCHANGED runVars

HandleSelect(i) ==
  /\ i \in 1..Len(suggestions)
  /\ selectedLocation' = [lat  |-> suggestions[i].lat,
                          lng  |-> suggestions[i].lon,
                          name |-> suggestions[i].name]
  /\ inputs' = [inputs EXCEPT !.query = suggestions[i].name]
  /\ suggestions' = <<>>
  /\ UNCHANGED <<geoData, latestSearch>>
  /\ alert' = NoAlert
  /\ UNCHANGED <<variant, pendingSearches, activeTab>>
  /\ UNCHANGED dataVars
  /\ UNCHANGED runVars

SetApiKey(k) ==
  /\ variant = "unified"
  /\ inputs' = [inputs EXCEPT !.apiKey = k]
  /\ UNCHANGED <<geoData, latestSearch>>
  /\ alert' = NoAlert
  /\ UNCHANGED <<variant, suggestions, pendingSearches, selectedLocation,
                 activeTab>>
  /\ UNCHANGED dataVars
  /\ UNCHANGED runVars

SetActiveTab(tab) ==
  /\ ShowPanel
  /\ tab \in Tabs
  /\ activeTab' = tab
  /\ UNCHANGED <<geoData, latestSearch>>
  /\ alert' = NoAlert
  /\ UNCHANGED <<variant, inputs, suggestions, pendingSearches,
                 selectedLocation>>
  /\ UNCHANGED dataVars
  /\ UNCHANGED runVars

----------------------------------------------------------------------------
(* The analysis run *)

\* a guard that forgets the API key
GuardFailsNoKey == selectedLocation = JNull

\* !selectedLocation || !inputs.apiKey   /   !selectedLocation
GuardFails ==
  IF variant = "unified"
  THEN selectedLocation = JNull \/ inputs.apiKey = ""
  ELSE selectedLocation = JNull

\* the arguments of the call to API.analyzeWithGemini
GeminiArgs(osm) ==
  IF variant = "unified"
  THEN << JStr(snap.apiKey), JStr(snap.type),
          JNum(snap.selectedLocation.lat), JNum(snap.selectedLocation.lng),
          JStr(snap.selectedLocation.name), JArr(osm) >>
  ELSE << JStr(snap.type),
          JNum(snap.selectedLocation.lat), JNum(snap.selectedLocation.lng),
          JStr(snap.selectedLocation.name), JArr(osm) >>

\* a catch that resolves to null instead of { analysis: null }
PredictResponseNull(out) ==
  IF out.kind = "json" THEN out.body ELSE JNull

\* .then(r => r.json()).catch(() => ({ analysis: null }))
PredictResponse(out) ==
  IF out.kind = "json" THEN out.body ELSE JObj([analysis |-> JNull])

\* a maps result that is dropped once the business analysis has failed
MapsDataOfGated(out) ==
  IF bizResult = JNull THEN JNull
  ELSE CASE out.kind = "ok" -> out.body
         [] out.kind = "notOk" -> JObj([error |-> JStr("Analysis service unavailable")])
         [] OTHER -> JObj([error    |-> JStr("Could not connect to Maps Reimagined service"),
                           fallback |-> JBool(TRUE)])

\* a catch block that reports every failure as the service being unavailable
MapsDataOfNoFallback(out) ==
  CASE out.kind = "ok" -> out.body
    [] OTHER -> JObj([error |-> JStr("Analysis service unavailable")])

\* the value setMapsData receives in runMapsAnalysis
MapsDataOf(out) ==
  CASE out.kind = "ok" -> out.body
    [] out.kind = "notOk" -> JObj([error |-> JStr("Analysis service unavailable")])
    [] OTHER -> JObj([error    |-> JStr("Could not connect to Maps Reimagined service"),
                      fallback |-> JBool(TRUE)])

\* the value runMapsAnalysis returns
MapsReturnOf(out) == IF out.kind = "ok" THEN out.body ELSE JNull

\* the tail of runUnifiedAnalysis once Promise.all has settled:
\* catch (alert) when it rejected, finally setLoading(false)
UnifiedSettle(rejected) ==
  /\ loading' = FALSE
  /\ IF rejected
     THEN /\ alert' = FailedAlert
          /\ failedAlerts' = failedAlerts + 1
     ELSE UNCHANGED <<alert, failedAlerts>>

\* a catch after which setLoading(false) is never reached
BusinessCatchNoFinally ==
  /\ pcBiz' = "done"
  /\ UNCHANGED <<scoutData, predictData, mapPins, loading>>
  /\ IF variant = "unified"
     THEN /\ bizResult' = JNull
          /\ UNCHANGED <<alert, failedAlerts>>
     ELSE /\ bizResult' = bizResult
          /\ alert' = FailedAlert
          /\ failedAlerts' = failedAlerts + 1

\* a catch that also clears the pins of the map
BusinessCatchClearsPins ==
  /\ pcBiz' = "done"
  /\ mapPins' = <<>>
  /\ UNCHANGED <<scoutData, predictData>>
  /\ IF variant = "unified"
     THEN /\ bizResult' = JNull
          /\ IF pcMaps = "done" THEN UnifiedSettle(FALSE)
             ELSE UNCHANGED <<loading, alert, failedAlerts>>
     ELSE /\ bizResult' = bizResult
          /\ alert' = FailedAlert
          /\ failedAlerts' = failedAlerts + 1
          /\ loading' = FALSE

\* an exception inside the try block of the business analysis
BusinessCatch ==
  /\ pcBiz' = "done"
  /\ UNCHANGED <<scoutData, predictData, mapPins>>
  /\ IF variant = "unified"
     THEN /\ bizResult' = JNull
          /\ IF pcMaps = "done" THEN UnifiedSettle(FALSE)
             ELSE UNCHANGED <<loading, alert, failedAlerts>>
     ELSE /\ bizResult' = bizResult
          /\ alert' = FailedAlert
          /\ failedAlerts' = failedAlerts + 1
          /\ loading' = FALSE

\* the three setters and the return of the business analysis
BusinessSuccess(osm, flask, G, pins) ==
  /\ pcBiz' = "done"
  /\ mapPins' = pins
  /\ scoutData' = JObj(Spread(Fields(G), [finalPins |-> JArr(pins)]))
  /\ predictData' = Or(Get(flask, "analysis"), JNull)
  /\ IF variant = "unified"
     THEN /\ bizResult' = JObj([scoutData   |-> G,
                                predictData |-> Get(flask, "analysis")])
          /\ IF pcMaps = "done" THEN UnifiedSettle(FALSE)
             ELSE UNCHANGED <<loading, alert, failedAlerts>>
     ELSE /\ bizResult' = bizResult
          /\ loading' = FALSE
          /\ UNCHANGED <<alert, failedAlerts>>

\* the continuation after await Promise.all([fetchCompetitors, /predict]):
\* the call to analyzeWithGemini up to its generateContent request
FetchJoin(osm, flask) ==
  LET params == BindGeminiParams(GeminiArgs(osm))
  IN  /\ geminiParams' = params
      /\ IF GeminiPromptThrows(params)
         THEN /\ BusinessCatch
              /\ UNCHANGED reqs
         ELSE /\ pcBiz' = "gemini"
              /\ reqs' = Issue(reqs, "gemini")
              /\ UNCHANGED <<scoutData, predictData, mapPins, bizResult,
                             loading, alert, failedAlerts>>

\* a run start that forgets setScoutData(null)
ResetResultsKeepsScout ==
  /\ scoutData' = scoutData
  /\ predictData' = JNull

\* setScoutData(null); setPredictData(null) at the start of a run
ResetResults ==
  /\ scoutData' = JNull
  /\ predictData' = JNull

\* a button that is never disabled
ButtonAlwaysEnabled == TRUE

\* disabled={loading} on the analysis button
ButtonEnabled == ~loading

\* runUnifiedAnalysis / runAnalysis: the click on the analysis button, which
\* is disabled while loading
RunUnifiedAnalysis ==
  /\ ButtonEnabled
  /\ IF GuardFails
     THEN /\ alert' = GuardAlert
          /\ UNCHANGED <<loading, scoutData, predictData, mapsData, mapsLoading>>
          /\ UNCHANGED runVars
     ELSE /\ loading' = TRUE
          /\ ResetResults
          /\ snap' = [selectedLocation |-> selectedLocation,
                    type   |-> inputs.type,
                    budget |-> inputs.budget,
                    apiKey |-> IF variant = "unified" THEN inputs.apiKey
                               ELSE "undefined"]
          /\ pcBiz' = "fetch"
          /\ comp' = "pending"
          /\ pred' = "pending"
          /\ osmCompetitors' = <<>>
          /\ flaskResponse' = JUndef
          /\ geminiParams' = JUndef
          /\ geminiAnalysis' = JUndef
          /\ finalPins' = <<>>
          /\ bizResult' = JUndef
          /\ mapsResult' = JUndef
          /\ failedAlerts' = 0
          /\ outcome' = [e \in Endpoints |-> "none"]
          /\ IF variant = "unified"
             THEN /\ mapsData' = JNull
                  /\ mapsLoading' = TRUE
                  /\ pcMaps' = "pending"
                  /\ reqs' = Issue(Issue(Issue(NoRequests, "overpass"), "predict"), "maps")
             ELSE /\ UNCHANGED <<mapsData, mapsLoading, pcMaps>>
                  /\ reqs' = Issue(Issue(NoRequests, "overpass"), "predict")
          /\ alert' = NoAlert
  /\ UNCHANGED <<geoData, latestSearch>>
  /\ UNCHANGED <<variant, inputs, suggestions, pendingSearches,
                 selectedLocation, activeTab, mapPins>>

Settled(out, okKinds) == IF out.kind \in okKinds THEN "ok" ELSE "failed"

\* the Overpass request settles and fetchCompetitors resolves
CompetitorsSettle(out) ==
  /\ comp = "pending"
  /\ comp' = "settled"
  /\ osmCompetitors' = FetchCompetitors(out)
  /\ outcome' = [outcome EXCEPT !["overpass"] = Settled(out, {"noElements", "elements"})]
  /\ IF pred = "settled"
     THEN FetchJoin(FetchCompetitors(out), flaskResponse)
     ELSE UNCHANGED <<geminiParams, pcBiz, reqs, scoutData, predictData,
                      mapPins, bizResult, loading, alert, failedAlerts>>
  /\ UNCHANGED <<geoData, latestSearch>>
  /\ UNCHANGED <<variant, inputs, suggestions, pendingSearches,
                 selectedLocation, activeTab, mapsData, mapsLoading, snap,
                 pred, flaskResponse, geminiAnalysis, finalPins, pcMaps,
                 mapsResult>>

\* the /predict request settles
PredictSettle(out) ==
  /\ pred = "pending"
  /\ pred' = "settled"
  /\ flaskResponse' = PredictResponse(out)
  /\ outcome' = [outcome EXCEPT !["predict"] = Settled(out, {"json"})]
  /\ IF comp = "settled"
     THEN FetchJoin(osmCompetitors, PredictResponse(out))
     ELSE UNCHANGED <<geminiParams, pcBiz, reqs, scoutData, predictData,
                      mapPins, bizResult, loading, alert, failedAlerts>>
  /\ UNCHANGED <<geoData, latestSearch>>
  /\ UNCHANGED <<variant, inputs, suggestions, pendingSearches,
                 selectedLocation, activeTab, mapsData, mapsLoading, snap,
                 comp, osmCompetitors, geminiAnalysis, finalPins, pcMaps,
                 mapsResult>>

\* generateContent settles: JSON.parse of the reply, the merge step, the
\* setters
GeminiSettle(out) ==
  /\ pcBiz = "gemini"
  /\ outcome' = [outcome EXCEPT !["gemini"] = Settled(out, {"json"})]
  /\ IF out.kind # "json"
     THEN /\ BusinessCatch
          /\ UNCHANGED <<geminiAnalysis, finalPins>>
     ELSE /\ geminiAnalysis' = out.value
          /\ IF MergeThrows(osmCompetitors, out.value)
             THEN /\ BusinessCatch
                  /\ UNCHANGED finalPins
             ELSE /\ finalPins' = Merge(osmCompetitors, out.value)
                  /\ BusinessSuccess(osmCompetitors, flaskResponse, out.value,
                                     Merge(osmCompetitors, out.value))
  /\ UNCHANGED <<geoData, latestSearch>>
  /\ UNCHANGED <<variant, inputs, suggestions, pendingSearches,
                 selectedLocation, activeTab, mapsData, mapsLoading, snap,
                 comp, pred, osmCompetitors, flaskResponse, geminiParams,
                 pcMaps, mapsResult, reqs>>

\* the Maps Reimagined request settles: the rest of runMapsAnalysis
MapsSettle(out) ==
  /\ pcMaps = "pending"
  /\ pcMaps' = "done"
  /\ mapsData' = MapsDataOf(out)
  /\ mapsResult' = MapsReturnOf(out)
  /\ mapsLoading' = FALSE
  /\ outcome' = [outcome EXCEPT !["maps"] = Settled(out, {"ok"})]
  /\ IF pcBiz = "done" THEN UnifiedSettle(FALSE)
     ELSE UNCHANGED <<loading, alert, failedAlerts>>
  /\ UNCHANGED <<geoData, latestSearch>>
  /\ UNCHANGED <<variant, inputs, suggestions, pendingSearches,
                 selectedLocation, activeTab, scoutData, predictData, mapPins,
                 snap, pcBiz, comp, pred, osmCompetitors, flaskResponse,
                 geminiParams, geminiAnalysis, finalPins, bizResult, reqs>>

----------------------------------------------------------------------------
Next ==
  \/ \E out \in GeoDataOutcomes : FetchGeoDataSettle(out)
  \/ \E q \in Queries : HandleSearch(q)
  \/ \E i \in 1..MaxPending, out \in GeoOutcomes : SearchSettle(i, out)
  \/ \E i \in 1..Len(suggestions) : HandleSelect(i)
  \/ \E k \in ApiKeys : SetApiKey(k)
  \/ \E tab \in {"business", "maps", "predict"} : SetActiveTab(tab)
  \/ RunUnifiedAnalysis
  \/ \E out \in OverpassOutcomes : CompetitorsSettle(out)
  \/ \E out \in PredictOutcomes : PredictSettle(out)
  \/ \E out \in GeminiOutcomes : GeminiSettle(out)
  \/ \E out \in MapsOutcomes : MapsSettle(out)

Spec == Init /\ [][Next]_vars

\* every external call of a run eventually settles
FairSpec ==
  /\ Spec
  /\ WF_vars(\E out \in OverpassOutcomes : CompetitorsSettle(out))
  /\ WF_vars(\E out \in PredictOutcomes : PredictSettle(out))
  /\ WF_vars(\E out \in GeminiOutcomes : GeminiSettle(out))
  /\ WF_vars(\E out \in MapsOutcomes : MapsSettle(out))

----------------------------------------------------------------------------
(* Properties *)

RunEnded == pcBiz = "done" /\ (variant = "unified" => pcMaps = "done")

\* the merge step ran to its end in the last run
Merged ==
  /\ pcBiz = "done"
  /\ outcome["gemini"] = "ok"
  /\ ~MergeThrows(osmCompetitors, geminiAnalysis)

EnrichedOf(G) ==
  LET e == Get(G, "competitors_enriched")
  IN  IF e.t = "array" THEN e.v ELSE <<>>

Matches(E, name) == {j \in 1..Len(E) : "name" \in DOMAIN E[j] /\ E[j].name = name}

GeminiStepFailed ==
  /\ geminiParams # JUndef
  /\ \/ GeminiPromptThrows(geminiParams)
     \/ outcome["gemini"] = "failed"
     \/ outcome["gemini"] = "ok" /\ MergeThrows(osmCompetitors, geminiAnalysis)

MapsCallFailed == outcome["maps"] = "failed" /\ Get(mapsData, "fallback") = JBool(TRUE)

\* C2: whenever a step of a run that passed the guard throws or rejects, the
\* user has received exactly one 'Analysis failed' alert by the end of the run.
C2_OneAlertPerFailedRun ==
  (RunEnded /\ (GeminiStepFailed \/ MapsCallFailed)) => failedAlerts = 1

\* C3: no retry.  Within one run each external endpoint is requested at most
\* once, whether the request succeeds or fails.
C3_NoRetry == \A e \in Endpoints : reqs[e] <= 1

\* a run in which every request failed has ended
C3_Witness ==
  /\ variant = "unified"
  /\ RunEnded
  /\ \A e \in Endpoints : outcome[e] = "failed" /\ reqs[e] = 1

\* C4: the competitor query and /predict are started together, and
\* analyzeWithGemini is called only after both have settled, with the
\* competitor list of this run's competitor query as its competitors.
C4_JoinThenGemini ==
  /\ (comp = "idle") <=> (pred = "idle")
  /\ reqs["overpass"] = reqs["predict"]
  /\ geminiParams # JUndef =>
       /\ comp = "settled"
       /\ pred = "settled"
       /\ geminiParams.competitors = JArr(osmCompetitors)

\* C5: an analysis invoked without a location (or, in App.jsx, without an API
\* key) alerts the user, issues no request and leaves loading, scoutData,
\* predictData, mapsData and mapPins unchanged.
C5_GuardedRun ==
  [][ (RunUnifiedAnalysis
       /\ (selectedLocation = JNull \/ (variant = "unified" /\ inputs.apiKey = "")))
      => /\ alert' = GuardAlert
         /\ UNCHANGED <<loading, scoutData, predictData, mapsData, mapPins>>
         /\ UNCHANGED <<reqs, comp, pred, pcBiz, pcMaps>> ]_vars

\* the guard alert was raised in App.jsx with a location picked and results of
\* an earlier run on screen
C5_Witness ==
  /\ variant = "unified"
  /\ alert = GuardAlert
  /\ selectedLocation # JNull
  /\ inputs.apiKey = ""
  /\ scoutData # JNull


AllSucceeded ==
  /\ variant = "unified"
  /\ RunEnded
  /\ \A e \in Endpoints : outcome[e] = "ok"

\* scoutData is the Gemini result G extended with the field finalPins
IsExtended(sd, G, pins) ==
  /\ sd.t = "object"
  /\ DOMAIN sd.v = DOMAIN Fields(G) \cup {"finalPins"}
  /\ sd.v["finalPins"] = JArr(pins)
  /\ \A f \in DOMAIN Fields(G) \ {"finalPins"} : sd.v[f] = Fields(G)[f]

\* C6 as stated: in App.jsx, when the four requests of a run all succeed, the
\* run ends with scoutData the Gemini result extended with finalPins, mapPins
\* equal to finalPins, predictData equal to the analysis field of the /predict
\* response, mapsData equal to the maps response, loading false and no alert.
C6_AllSucceedAsStated ==
  AllSucceeded =>
    /\ IsExtended(scoutData, geminiAnalysis, finalPins)
    /\ mapPins = finalPins
    /\ predictData = Get(flaskResponse, "analysis")
    /\ mapsData = mapsResult
    /\ ~loading
    /\ failedAlerts = 0

\* C6 amended: in App.jsx, when the four requests of a run all succeed and the
\* merge step does not throw, the run ends with scoutData the Gemini result
\* extended with finalPins, mapPins equal to finalPins, predictData equal to
\* the analysis field of the /predict response when that field is truthy and
\* null otherwise, mapsData equal to the maps response, loading false and no
\* alert.
C6_AllSucceedMerged ==
  (AllSucceeded /\ ~MergeThrows(osmCompetitors, geminiAnalysis)) =>
    /\ IsExtended(scoutData, geminiAnalysis, finalPins)
    /\ mapPins = finalPins
    /\ LET a == Get(flaskResponse, "analysis")
       IN  IF a.t \in {"null", "undefined"} THEN predictData = JNull
           ELSE predictData = a
    /\ mapsData = mapsResult
    /\ ~loading
    /\ failedAlerts = 0

\* all four requests succeeded, the merge enriched a competitor, and the
\* /predict response carried no analysis
C6_Witness ==
  /\ AllSucceeded
  /\ ~MergeThrows(osmCompetitors, geminiAnalysis)
  /\ Len(finalPins) = 2
  /\ "rating" \in DOMAIN finalPins[1]
  /\ Get(flaskResponse, "analysis") = JUndef
  /\ mapsData # JNull

\* C7: in the two-tab variant, when the competitor query, /predict and the
\* Gemini service all succeed, runAnalysis ends with scoutData non-null,
\* mapPins equal to finalPins and no alert; its call to analyzeWithGemini binds
\* the competitor list to the competitors parameter.
C7_TwoTabRunSucceeds ==
  variant = "twoTab" =>
    /\ geminiParams # JUndef => geminiParams.competitors = JArr(osmCompetitors)
    /\ (/\ pcBiz = "done"
        /\ outcome["overpass"] = "ok"
        /\ outcome["predict"] = "ok"
        /\ outcome["gemini"] # "failed")
       => /\ scoutData # JNull
          /\ mapPins = finalPins
          /\ failedAlerts = 0

\* C8: predictData is null or exactly the analysis field of the /predict
\* response of the most recent run; a failed /predict request becomes
\* { analysis: null }, the run goes on to the Gemini call, and when the rest
\* of the business analysis succeeds scoutData is set while predictData is
\* null.
C8_PredictFromBackendOnly ==
  /\ predictData \in {JNull, Get(flaskResponse, "analysis")}
  /\ outcome["predict"] = "failed" =>
       /\ flaskResponse = JObj([analysis |-> JNull])
       /\ predictData = JNull
       /\ (variant = "unified" /\ comp = "settled") =>
             pcBiz \in {"gemini", "done"} /\ reqs["gemini"] = 1
       /\ Merged => scoutData # JNull

\* /predict failed and the business analysis still stored its result
C8_Witness ==
  /\ variant = "unified"
  /\ outcome["predict"] = "failed"
  /\ Merged
  /\ scoutData # JNull
  /\ predictData = JNull

MapsViews == {"mapsLoading", "mapsError", "mapsContent", "mapsPlaceholder"}

Running == pcBiz \in {"fetch", "gemini"} \/ pcMaps = "pending"

\* C10: loading is true whenever a request of the run is in flight and for as
\* long as the business or the maps analysis has not settled, it is false once
\* the run has ended, and, every external call settling, it always returns to
\* false.
C10_LoadingBrackets ==
  /\ []((\E e \in Endpoints : reqs[e] > 0 /\ outcome[e] = "none") => loading)
  /\ [](Running => loading)
  /\ []((RunEnded /\ ~Running) => ~loading)
  /\ (loading ~> ~loading)

\* a run whose Gemini step failed has ended with loading back to false
C10_Witness ==
  /\ RunEnded
  /\ GeminiStepFailed
  /\ ~loading


\* what the three setters of a completed business analysis store
BusinessStored ==
  /\ IsExtended(scoutData, geminiAnalysis, finalPins)
  /\ mapPins = finalPins
  /\ predictData = (IF Truthy(Get(flaskResponse, "analysis"))
                    THEN Get(flaskResponse, "analysis") ELSE JNull)

\* C11: the business and the maps analysis of a run are independent.  mapsData
\* is the maps service response whenever that request succeeded, also when the
\* Gemini step failed; scoutData, mapPins and predictData are stored whenever
\* the merge completed, also when the maps service was unreachable.
C11_AnalysesIndependent ==
  variant = "unified" =>
    /\ (pcMaps = "done" /\ outcome["maps"] = "ok") => mapsData = mapsResult
    /\ (RunEnded /\ GeminiStepFailed /\ outcome["maps"] = "ok") =>
          mapsData = mapsResult /\ scoutData = JNull
    /\ Merged => BusinessStored
    /\ (RunEnded /\ Merged /\ MapsCallFailed) =>
          BusinessStored /\ Get(mapsData, "fallback") = JBool(TRUE)

\* the Gemini step failed before the maps service answered, and the answer of
\* the maps service is on screen
C11_Witness ==
  /\ variant = "unified"
  /\ RunEnded
  /\ outcome["gemini"] = "failed"
  /\ scoutData = JNull
  /\ Get(mapsData, "areaScore") = JStr("8")

\* C12: runMapsAnalysis has exactly three outcomes and never rejects.  An OK
\* response stores and returns the parsed body; a non-OK response stores
\* {error: 'Analysis service unavailable'} and returns null; a network or
\* parse exception stores an error message with fallback: true and returns
\* null.  mapsLoading is true from entry and false after each outcome.
C12_MapsOutcomes ==
  [][ /\ (pcMaps' = "pending" /\ pcMaps # "pending") => mapsLoading'
      /\ pcMaps = "pending" => mapsLoading
      /\ \A out \in MapsOutcomes :
           MapsSettle(out) =>
             /\ pcMaps' = "done"
             /\ ~mapsLoading'
             /\ failedAlerts' = failedAlerts
             /\ out.kind = "ok" => mapsData' = out.body /\ mapsResult' = out.body
             /\ out.kind = "notOk" =>
                  /\ mapsData' = JObj([error |-> JStr("Analysis service unavailable")])
                  /\ mapsResult' = JNull
             /\ out.kind \in {"networkError", "badBody"} =>
                  /\ Get(mapsData', "error").t = "string"
                  /\ Get(mapsData', "error") # JStr("")
                  /\ Get(mapsData', "fallback") = JBool(TRUE)
                  /\ mapsResult' = JNull ]_vars

\* runMapsAnalysis ended in its catch block
C12_Witness ==
  /\ pcMaps = "done"
  /\ ~mapsLoading
  /\ Get(mapsData, "fallback") = JBool(TRUE)
  /\ mapsResult = JNull

\* the step in which the Gemini step of the business analysis fails
GeminiFails ==
  /\ variant = "unified"
  /\ pcBiz = "gemini"
  /\ pcBiz' = "done"
  /\ outcome'["gemini"] = "failed"

\* the step in which the business analysis runs its setters
BusinessStores ==
  /\ pcBiz = "gemini"
  /\ pcBiz' = "done"
  /\ outcome'["gemini"] = "ok"

\* C13: when the Gemini step of runBusinessAnalysis fails, no setter runs:
\* scoutData and predictData remain null, also when /predict returned an
\* analysis, mapPins keeps the value it had before the run, and
\* runBusinessAnalysis resolves to null without rejecting.
C13_GeminiFailureStoresNothing ==
  [][ /\ GeminiFails =>
           /\ scoutData = JNull /\ scoutData' = JNull
           /\ predictData = JNull /\ predictData' = JNull
           /\ mapPins' = mapPins
           /\ bizResult' = JNull
           /\ failedAlerts' = failedAlerts
      /\ (pcBiz \in {"fetch", "gemini"} /\ mapPins' # mapPins) => BusinessStores
      /\ (loading' /\ ~loading) => mapPins' = mapPins ]_vars

\* the Gemini step failed although /predict had returned an analysis, and the
\* pins of an earlier run are still on the map
C13_Witness ==
  /\ variant = "unified"
  /\ pcBiz = "done"
  /\ outcome["gemini"] = "failed"
  /\ bizResult = JNull
  /\ Get(flaskResponse, "analysis") = Analysis1
  /\ predictData = JNull
  /\ scoutData = JNull
  /\ Len(mapPins) = 2

\* C15: at most one analysis run is in flight.  A run starts only in a state
\* where loading is false and no run is in progress, and loading is true for
\* the whole duration of a run.
C15_OneRunAtATime ==
  /\ [][ (failedAlerts' = 0 /\ pcBiz' = "fetch" /\ comp' = "pending"
          /\ pred' = "pending" /\ outcome' = [e \in Endpoints |-> "none"]
          /\ RunUnifiedAnalysis)
         => (~loading /\ ~Running /\ loading') ]_vars
  /\ [](Running <=> loading)

\* a second run has started after a first one ended
C15_Witness ==
  /\ Running
  /\ loading
  /\ Len(mapPins) = 2
  /\ scoutData = JNull

\* the step in which a run passes the guard and starts
RunStarts == ~loading /\ loading'

\* C14: starting a run sets scoutData, predictData and mapsData to null in the
\* step that issues the first requests and leaves mapPins, selectedLocation,
\* inputs, suggestions, activeTab and geoData as they were; the pins of the
\* previous run change only when the business analysis of a later run stores
\* its result.
C14_RunStartResets ==
  [][ /\ RunStarts =>
           /\ scoutData' = JNull
           /\ predictData' = JNull
           /\ mapsData' = JNull
           /\ reqs'["overpass"] = 1 /\ reqs'["predict"] = 1
           /\ UNCHANGED <<mapPins, selectedLocation, inputs, suggestions,
                          activeTab, geoData>>
      /\ mapPins' # mapPins => (loading /\ BusinessStores) ]_vars

\* a second run is in flight in App.jsx with the results of the first run
\* reset, its pins still on the map and the map data loaded
C14_Witness ==
  /\ variant = "unified"
  /\ loading
  /\ pcBiz = "gemini"
  /\ scoutData = JNull
  /\ predictData = JNull
  /\ mapsData = JNull
  /\ Len(mapPins) = 2
  /\ geoData = LoadedGeoData
  /\ suggestions # <<>>
  /\ activeTab = "maps"

\* C16: the response that arrives last does not decide the suggestions.  In
\* the step in which the last geocoding request in flight settles, the
\* suggestions become the results of the most recent handleSearch call that
\* issued a request, in whatever order the responses arrived.
C16_LatestSearchWins ==
  [][ (pendingSearches # <<>> /\ pendingSearches' = <<>>)
        => /\ latestSearch'.t = "results"
           /\ suggestions' = latestSearch'.v ]_vars

\* C17: handleSearch stores the typed text in inputs.query whatever its
\* length; it issues one geocoding request when the text has more than 2
\* characters and none otherwise, and in both cases leaves suggestions as
\* they were.
C17_HandleSearchFrame ==
  [][ \A q \in Queries :
        HandleSearch(q) =>
          /\ inputs'.query = q
          /\ Len(q) > 2 => pendingSearches' = Append(pendingSearches, q)
          /\ Len(q) <= 2 => pendingSearches' = pendingSearches
          /\ suggestions' = suggestions ]_vars

\* a text of 2 characters is in the search box, no request is in flight and
\* the suggestions of an earlier search are still listed
C17_Witness ==
  /\ inputs.query = "CP"
  /\ Len(inputs.query) = 2
  /\ selectedLocation = JNull
  /\ pendingSearches = <<>>
  /\ suggestions # <<>>

============================================================================
